---- MODULE Spec2Model ----
(***************************************************************************)
(* A model of src/cli.ts: the "search" command of local-web-search.        *)
(*                                                                         *)
(* One run parses its options, launches a browser, starts one search()     *)
(* pipeline per query and awaits them with Promise.all inside an           *)
(* "await using" scope.  Each pipeline opens a search page, extracts the   *)
(* candidate links and submits one visitLink task per link to a shared     *)
(* p-queue; it awaits the tasks with Promise.allSettled and logs the       *)
(* filtered results.                                                       *)
(*                                                                         *)
(* Node runs one event-loop turn at a time: the completion of one awaited  *)
(* browser operation, followed by every promise continuation it makes      *)
(* runnable.  Each action below is one such turn.                          *)
(*                                                                         *)
(* Text is a sequence of one-character strings.  An optional JavaScript    *)
(* value is a sequence of length 0 (undefined) or 1 (the value).           *)
(***************************************************************************)
EXTENDS Integers, Sequences, FiniteSets, TLC

VARIABLES
  options,      \* the parsed command line: query, maxResults, concurrency
  runPc,        \* where the command's action is
  exitCode,     \* process.exitCode (0 while unset)
  browser,      \* the session: "none", "open" or "closed"
  closeCount,   \* how many times context.close() was called
  promiseAll,   \* the Promise.all over the pipelines
  maxResults,   \* the per-query cap computed by the action
  qpc,          \* per query: the next step of its search() call
  spage,        \* per query: the state of its search page
  request,      \* per query: the search request sent by page.goto
  dom,          \* per query: the result containers of the loaded search page
  links,        \* per query: the candidate links extracted
  interim,      \* per query: the interim lists logged
  final,        \* per query: the final results logged
  vpc,          \* per task: the next step of its visitLink call
  vpage,        \* per task: the state of its page
  result,       \* per task: the value of the visit
  queue,        \* p-queue: the tasks waiting to start
  pending,      \* p-queue: its count of running tasks
  firstSettled  \* per query: the link whose visit settled first (0: none yet)

vars == <<options, runPc, exitCode, browser, closeCount, promiseAll, maxResults,
          qpc, spage, request, dom, links, interim, final,
          vpc, vpage, result, queue, pending, firstSettled>>

runVars   == <<runPc, exitCode, browser, closeCount, promiseAll, maxResults>>
visitVars == <<vpc, vpage, result, queue, pending, firstSettled>>

----------------------------------------------------------------------------
(* Bounds of the model *)

MaxQueries    == 2   \* queries on the command line
MaxContainers == 4   \* result containers on a search page
MaxLen        == 3   \* characters of a generated query text
MaxCap        == 10  \* largest --max-results
MaxConc       == 2   \* largest --concurrency
MaxVisits     == 2   \* candidate links of a run, over all its queries

(* Program constants *)

DefaultConcurrency == 15   \* options.concurrency || 15
DefaultNum         == 10   \* options.maxResults || 10
MinResults         == 3    \* Math.max(3, ...)

Q     == 1..MaxQueries
Tasks == Q \X (1..MaxContainers)

----------------------------------------------------------------------------
(* JavaScript values *)

Undefined == <<>>
Some(v)   == <<v>>

\* a number is falsy when it is 0, undefined is falsy
Truthy(x) == x # Undefined /\ x[1] # 0

\* x && y
AndThen(x, y) == IF Truthy(x) THEN y ELSE x

\* x || y
OrElse(x, y) == IF Truthy(x) THEN x ELSE y

Max(a, b) == IF a >= b THEN a ELSE b

----------------------------------------------------------------------------
(* Text *)

Quote == "\""
Space == " "

SeqsUpTo(S, n) == UNION {[1..m -> S] : m \in 0..n}

\* a mutant of stripQuotes: every double quote is removed
RECURSIVE stripAllQuotes(_)
stripAllQuotes(text) ==
  IF text = <<>> THEN <<>>
  ELSE IF Head(text) = Quote THEN stripAllQuotes(Tail(text))
       ELSE <<Head(text)>> \o stripAllQuotes(Tail(text))

\* text.replace(/^"|"$/g, ""): the scan removes a quote at position 0, then,
\* further on, a quote that is the last character
stripQuotes(text) ==
  LET a == IF text # <<>> /\ Head(text) = Quote THEN Tail(text) ELSE text
  IN  IF a # <<>> /\ a[Len(a)] = Quote THEN SubSeq(a, 1, Len(a) - 1) ELSE a

\* encodeURIComponent on one character of the model's alphabet: letters are
\* unreserved, a space and a double quote are percent-encoded
EncodeChar(c) ==
  CASE c = Space -> <<"%", "2", "0">>
    [] c = Quote -> <<"%", "2", "2">>
    [] OTHER     -> <<c>>

RECURSIVE encodeURIComponent(_)
encodeURIComponent(text) ==
  IF text = <<>> THEN <<>>
  ELSE EncodeChar(Head(text)) \o encodeURIComponent(Tail(text))

\* the query of the end-to-end example: php "hello world"
PhpHello == <<"p", "h", "p", Space, Quote, "h", "e", "l", "l", "o", Space,
              "w", "o", "r", "l", "d", Quote>>

Filler == <<"a">>

\* the query texts the model generates
Texts == SeqsUpTo({"a", Quote}, MaxLen) \cup {PhpHello}

\* the command line's queries: none, or up to MaxQueries of which one is drawn
\* from T and the others are Filler
QueryLists(T) ==
  {<<>>} \cup
  UNION {{[i \in 1..k |-> IF i = j THEN t ELSE Filler] : j \in 1..k, t \in T}
         : k \in 1..MaxQueries}

----------------------------------------------------------------------------
(* The options of a run *)

\* !options.query: cac gives undefined without -q, a string for one -q and
\* an array for several; the empty string is falsy, an array never is
MissingQuery == Len(options.query) = 0
                \/ (Len(options.query) = 1 /\ options.query[1] = <<>>)

\* queries = Array.isArray(options.query) ? options.query : [options.query]
queries == options.query

NumQueries == Len(queries)

Started == 1..NumQueries

\* a mutant of ActionMaxResults: the total cap is not divided by the queries
ActionMaxResultsUndivided ==
  AndThen(options.maxResults, Some(Max(MinResults, options.maxResults[1])))

\* options.maxResults && Math.max(3, Math.floor(options.maxResults / queries.length))
ActionMaxResults ==
  AndThen(options.maxResults,
          Some(Max(MinResults, options.maxResults[1] \div NumQueries)))

\* new Queue({ concurrency: options.concurrency || 15 })
Concurrency == OrElse(options.concurrency, Some(DefaultConcurrency))[1]

\* the search request: q and num of the url given to page.goto
SearchUrl(q) ==
  [q   |-> encodeURIComponent(stripQuotes(queries[q])),
   num |-> OrElse(maxResults, Some(DefaultNum))[1]]

----------------------------------------------------------------------------
(* Initial states *)

InitWith(QL, Caps, Concs) ==
  /\ options \in [query : QL, maxResults : Caps, concurrency : Concs]
  /\ runPc = "start"
  /\ exitCode = 0
  /\ browser = "none"
  /\ closeCount = 0
  /\ promiseAll = "none"
  /\ maxResults = Undefined
  /\ qpc = [q \in Q |-> "idle"]
  /\ spage = [q \in Q |-> "none"]
  /\ request = [q \in Q |-> <<>>]
  /\ dom = [q \in Q |-> <<>>]
  /\ links = [q \in Q |-> <<>>]
  /\ interim = [q \in Q |-> <<>>]
  /\ final = [q \in Q |-> <<>>]
  /\ vpc = [t \in Tasks |-> "idle"]
  /\ vpage = [t \in Tasks |-> "none"]
  /\ result = [t \in Tasks |-> <<>>]
  /\ queue = <<>>
  /\ pending = 0
  /\ firstSettled = [q \in Q |-> 0]

----------------------------------------------------------------------------
(* The run: the command's action and main() *)

\* the disposer of launchBrowser's result: await context.close()
AsyncDispose ==
  /\ browser' = "closed"
  /\ closeCount' = closeCount + 1

\* a mutant of DisposesOnExit: the browser is closed at the end of the block only
DisposesOnReturnOnly(rejected) == ~rejected

\* "await using browser" leaves its scope on return and on throw alike
\* (rejected: whether the scope is left by the rejection of Promise.all)
DisposesOnExit(rejected) == TRUE

\* Promise.all settles with the first rejection or with the last fulfilment
PromiseAllSettles(qn) ==
  \/ \E q \in Started : qn[q] = "thrown"
  \/ \A q \in Started : qn[q] = "done"

\* What the action does in the turn that leaves the pipelines in states qn:
\* when Promise.all settles, the await ends, the scope of "await using" is
\* left and the browser is disposed
RunReact(qn) ==
  IF runPc = "awaitAll" /\ PromiseAllSettles(qn)
  THEN LET rejected == \E q \in Started : qn[q] = "thrown"
       IN  /\ promiseAll' = IF rejected THEN "rejected" ELSE "fulfilled"
           /\ runPc' = "disposing"
           /\ IF DisposesOnExit(rejected)
              THEN AsyncDispose
              ELSE UNCHANGED <<browser, closeCount>>
           /\ UNCHANGED <<exitCode, maxResults>>
  ELSE UNCHANGED runVars

\* the action up to launchBrowser: the query check and maxResults
ActionStart ==
  /\ runPc = "start"
  /\ IF MissingQuery
     THEN \* throw new Error("missing query"), caught by main
          /\ runPc' = "exited"
          /\ exitCode' = 1
          /\ UNCHANGED maxResults
     ELSE /\ runPc' = "launch"
          /\ maxResults' = ActionMaxResults
          /\ UNCHANGED exitCode
  /\ UNCHANGED <<options, browser, closeCount, promiseAll, qpc, spage, request,
                 dom, links, interim, final>>
  /\ UNCHANGED visitVars

\* await launchBrowser(...) succeeds: the queue is created and every
\* search() is called, each running up to its context.newPage()
launchBrowserOk ==
  /\ runPc = "launch"
  /\ browser' = "open"
  /\ runPc' = "awaitAll"
  /\ promiseAll' = "pending"
  /\ qpc' = [q \in Q |-> IF q \in Started THEN "newPage" ELSE "idle"]
  /\ UNCHANGED <<options, exitCode, closeCount, maxResults, spage, request,
                 dom, links, interim, final>>
  /\ UNCHANGED visitVars

\* a mutant of launchBrowserFail: main's catch leaves process.exitCode unset
launchBrowserFailSilently ==
  /\ runPc = "launch"
  /\ runPc' = "exited"
  /\ UNCHANGED <<options, exitCode, browser, closeCount, promiseAll, maxResults,
                 qpc, spage, request, dom, links, interim, final>>
  /\ UNCHANGED visitVars

\* launch() throws: nothing was bound by "await using", main catches
launchBrowserFail ==
  /\ runPc = "launch"
  /\ runPc' = "exited"
  /\ exitCode' = 1
  /\ UNCHANGED <<options, browser, closeCount, promiseAll, maxResults, qpc,
                 spage, request, dom, links, interim, final>>
  /\ UNCHANGED visitVars

\* context.close() is done: the action returns, or rethrows to main's catch
ActionExit ==
  /\ runPc = "disposing"
  /\ runPc' = "exited"
  /\ exitCode' = IF promiseAll = "rejected" THEN 1 ELSE exitCode
  /\ UNCHANGED <<options, browser, closeCount, promiseAll, maxResults, qpc,
                 spage, request, dom, links, interim, final>>
  /\ UNCHANGED visitVars

----------------------------------------------------------------------------
(* search(): the steps before the candidate links *)

\* the results of an operation on the browser or on one of its pages: after
\* the browser is closed every operation rejects
Outcomes == IF browser = "open" THEN {"ok", "fail"} ELSE {"fail"}

\* an await of search() rejects: nothing catches it, the page stays as it is
SearchThrow(q) ==
  LET qn == [qpc EXCEPT ![q] = "thrown"]
  IN  /\ qpc' = qn
      /\ spage' = [spage EXCEPT ![q] = IF @ = "none" THEN "none" ELSE "failed"]
      /\ RunReact(qn)
      /\ UNCHANGED <<options, request, dom, links, interim, final>>
      /\ UNCHANGED visitVars

\* const page = await context.newPage()
SearchNewPage(q) ==
  /\ qpc[q] = "newPage"
  /\ \E o \in Outcomes :
       IF o = "ok"
       THEN /\ qpc' = [qpc EXCEPT ![q] = "intercept"]
            /\ spage' = [spage EXCEPT ![q] = "created"]
            /\ UNCHANGED <<options, request, dom, links, interim, final>>
            /\ UNCHANGED runVars
            /\ UNCHANGED visitVars
       ELSE SearchThrow(q)

\* await interceptRequest(page), then the url is built and page.goto called
SearchIntercept(q) ==
  /\ qpc[q] = "intercept"
  /\ \E o \in Outcomes :
       IF o = "ok"
       THEN /\ qpc' = [qpc EXCEPT ![q] = "goto"]
            /\ spage' = [spage EXCEPT ![q] = "opened"]
            /\ request' = [request EXCEPT ![q] = Some(SearchUrl(q))]
            /\ UNCHANGED <<options, dom, links, interim, final>>
            /\ UNCHANGED runVars
            /\ UNCHANGED visitVars
       ELSE SearchThrow(q)

\* await page.goto(url, { waitUntil: "networkidle2" })
SearchGoto(q) ==
  /\ qpc[q] = "goto"
  /\ \E o \in Outcomes :
       IF o = "ok"
       THEN /\ qpc' = [qpc EXCEPT ![q] = "evaluate"]
            /\ spage' = [spage EXCEPT ![q] = "navigated"]
            /\ UNCHANGED <<options, request, dom, links, interim, final>>
            /\ UNCHANGED runVars
            /\ UNCHANGED visitVars
       ELSE SearchThrow(q)

----------------------------------------------------------------------------
(* The search page and the candidate links *)

Title    == <<"t">>
Url(p)   == <<"u", p>>
NoText   == <<>>

\* the result containers (".g") a search page can hold: the h3 text and the
\* href of the container at position p, either of which may be missing
ContainersAt(p) == [title : {NoText, Title}, url : {NoText, Url(p)}]

AllPages ==
  UNION {{d \in [1..n -> UNION {ContainersAt(p) : p \in 1..n}] :
            \A p \in 1..n : d[p] \in ContainersAt(p)}
         : n \in 0..MaxContainers}

\* a mutant of Skipped: only the title is tested
SkippedIfNoTitle(item) == item.title = NoText

\* if (!item.title || !item.url) return
Skipped(item) == item.title = NoText \/ item.url = NoText

\* a mutant of ExtractLinks: the last container is not read
RECURSIVE ExtractLinksButLast(_)
ExtractLinksButLast(d) ==
  IF Len(d) <= 1 THEN <<>>
  ELSE IF Skipped(Head(d)) THEN ExtractLinksButLast(Tail(d))
       ELSE <<Head(d)>> \o ExtractLinksButLast(Tail(d))

\* the callback of page.evaluate in search(): elements.forEach in document order
RECURSIVE ExtractLinks(_)
ExtractLinks(d) ==
  IF d = <<>> THEN <<>>
  ELSE IF Skipped(Head(d)) THEN ExtractLinks(Tail(d))
       ELSE <<Head(d)>> \o ExtractLinks(Tail(d))

RECURSIVE SumLen(_, _)
SumLen(f, n) == IF n = 0 THEN 0 ELSE Len(f[n]) + SumLen(f, n - 1)

Min(a, b) == IF a <= b THEN a ELSE b

\* the page of n containers that all have their title and their url
GoodPage(n) == [p \in 1..n |-> [title |-> Title, url |-> Url(p)]]

\* the pages of the full run: every container has its title and its url, and
\* the run's candidate links stay within MaxVisits
MainPages ==
  {GoodPage(n) :
     n \in 0..Min(MaxContainers, MaxVisits - SumLen(links, MaxQueries))}

\* the pages of a run with one query: every container has its title and its url
GoodPages == {GoodPage(n) : n \in 0..MaxContainers}

----------------------------------------------------------------------------
(* p-queue *)

\* a mutant of HasCapacity: the comparison is off by one
HasCapacityOffByOne(n) == n <= Concurrency

\* p-queue starts a task only while fewer than concurrency are running
HasCapacity(n) == n < Concurrency

\* s is [queue, pending, vpc].  A task that starts calls visitLink, which runs
\* up to its context.newPage()
TryToStartAnother(s) ==
  IF s.queue # <<>> /\ HasCapacity(s.pending)
  THEN [queue   |-> Tail(s.queue),
        pending |-> s.pending + 1,
        vpc     |-> [s.vpc EXCEPT ![Head(s.queue)] = "newPage"]]
  ELSE s

\* options.queue.add(() => visitLink(context, item.url))
QueueAdd(s, t) ==
  TryToStartAnother([s EXCEPT !.queue = Append(@, t), !.vpc[t] = "queued"])

\* links.map((item) => options.queue.add(...)): links 1..n of query q in order
RECURSIVE QueueAddAll(_, _, _)
QueueAddAll(s, q, n) ==
  IF n = 0 THEN s ELSE QueueAdd(QueueAddAll(s, q, n - 1), <<q, n>>)

\* a mutant of QueueNext: the next task is not started
QueueNextNoStart(s) == [s EXCEPT !.pending = @ - 1]

\* a task settled: p-queue counts it out and starts the next one
QueueNext(s) == TryToStartAnother([s EXCEPT !.pending = @ - 1])

----------------------------------------------------------------------------
(* The results of a query *)

\* toMarkdown of ./to-markdown: the empty fragment gives the empty text
toMarkdown(html) == IF html = "" THEN "" ELSE "md"

Settled == {"fulfilled", "rejected"}

\* a mutant of AllSettled: the outcomes are collected last link first
AllSettledReversed(q, vp, res) ==
  LET n == Len(links[q])
  IN  [i \in 1..n |->
        IF vp[<<q, n + 1 - i>>] = "fulfilled"
        THEN [status |-> "fulfilled", value |-> res[<<q, n + 1 - i>>]]
        ELSE [status |-> "rejected", value |-> Undefined]]

\* a mutant of AllSettled: like Promise.all, one rejection loses every outcome
AllSettledFailFast(q, vp, res) ==
  [i \in 1..Len(links[q]) |->
    IF \A j \in 1..Len(links[q]) : vp[<<q, j>>] = "fulfilled"
    THEN [status |-> "fulfilled", value |-> res[<<q, i>>]]
    ELSE [status |-> "rejected", value |-> Undefined]]

\* Promise.allSettled(links.map(...)): outcome i is that of link i
AllSettled(q, vp, res) ==
  [i \in 1..Len(links[q]) |->
    IF vp[<<q, i>>] = "fulfilled"
    THEN [status |-> "fulfilled", value |-> res[<<q, i>>]]
    ELSE [status |-> "rejected", value |-> Undefined]]

\* a mutant of Kept: the content is not tested
KeptIfFulfilled(item) == item.status = "fulfilled"

\* .map((item) => (item.status === "fulfilled" ? item.value : null))
\* .filter((v) => v?.content)
Kept(item) == item.status = "fulfilled" /\ item.value[1].content # ""

RECURSIVE FilterResults(_)
FilterResults(items) ==
  IF items = <<>> THEN <<>>
  ELSE IF Kept(Head(items))
       THEN <<Head(items).value[1]>> \o FilterResults(Tail(items))
       ELSE FilterResults(Tail(items))

\* the results of the final log of query q
FinalResults(q, vp, res) == FilterResults(AllSettled(q, vp, res))

----------------------------------------------------------------------------
(* search(): the candidate links and the visits *)

\* const links = await page.evaluate(...), then the interim log and one
\* queue.add per link; with no link Promise.allSettled([]) is already
\* fulfilled and the final log follows
SearchEvaluateOn(q, pages) ==
  /\ qpc[q] = "evaluate"
  /\ \E o \in Outcomes :
       IF o = "ok"
       THEN \E d \in pages :
              LET ls == ExtractLinks(d)
                  s  == QueueAddAll([queue |-> queue, pending |-> pending,
                                     vpc |-> vpc], q, Len(ls))
                  qn == [qpc EXCEPT ![q] = IF ls = <<>> THEN "done" ELSE "waiting"]
              IN  /\ spage' = [spage EXCEPT ![q] = "extracted"]
                  /\ dom' = [dom EXCEPT ![q] = d]
                  /\ links' = [links EXCEPT ![q] = ls]
                  /\ interim' = [interim EXCEPT ![q] = Append(@, ls)]
                  /\ final' = IF ls = <<>>
                              THEN [final EXCEPT ![q] = Append(@, <<>>)]
                              ELSE final
                  /\ queue' = s.queue
                  /\ pending' = s.pending
                  /\ vpc' = s.vpc
                  /\ qpc' = qn
                  /\ RunReact(qn)
                  /\ UNCHANGED <<options, request, vpage, result, firstSettled>>
       ELSE SearchThrow(q)

SearchEvaluate(q) == SearchEvaluateOn(q, MainPages)

\* The turn in which the visit of task t settles as st with value res:
\* p-queue starts the next task; when it was the last visit of its query,
\* Promise.allSettled is fulfilled, search() logs the final results and
\* returns, and Promise.all may settle
Settle(t, st, res) ==
  LET q  == t[1]
      s  == QueueNext([queue |-> queue, pending |-> pending,
                       vpc |-> [vpc EXCEPT ![t] = st]])
      rs == [result EXCEPT ![t] = res]
      allDone == \A i \in 1..Len(links[q]) : s.vpc[<<q, i>>] \in Settled
      qn == IF allDone THEN [qpc EXCEPT ![q] = "done"] ELSE qpc
  IN  /\ vpc' = s.vpc
      /\ queue' = s.queue
      /\ pending' = s.pending
      /\ result' = rs
      /\ firstSettled' = IF firstSettled[q] = 0
                         THEN [firstSettled EXCEPT ![q] = t[2]]
                         ELSE firstSettled
      /\ final' = IF allDone
                  THEN [final EXCEPT ![q] = Append(@, FinalResults(q, s.vpc, rs))]
                  ELSE final
      /\ qpc' = qn
      /\ RunReact(qn)
      /\ UNCHANGED <<options, spage, request, dom, links, interim>>

----------------------------------------------------------------------------
(* visitLink() *)

\* an await of visitLink rejects: nothing catches it, the page stays as it is
VisitThrow(t) ==
  /\ vpage' = [vpage EXCEPT ![t] = IF @ = "none" THEN "none" ELSE "failed"]
  /\ Settle(t, "rejected", Undefined)

\* one awaited step of visitLink that succeeds
VisitStep(t, pc, page, res) ==
  /\ vpc' = [vpc EXCEPT ![t] = pc]
  /\ vpage' = [vpage EXCEPT ![t] = page]
  /\ result' = [result EXCEPT ![t] = res]
  /\ UNCHANGED <<options, qpc, spage, request, dom, links, interim, final,
                 queue, pending, firstSettled>>
  /\ UNCHANGED runVars

\* a mutant of VisitNewPage: interceptRequest is not awaited before page.goto
VisitNewPageThenGoto(t) ==
  /\ vpc[t] = "newPage"
  /\ \E o \in Outcomes :
       IF o = "ok" THEN VisitStep(t, "goto", "created", result[t])
       ELSE VisitThrow(t)

\* const page = await context.newPage()
VisitNewPage(t) ==
  /\ vpc[t] = "newPage"
  /\ \E o \in Outcomes :
       IF o = "ok" THEN VisitStep(t, "intercept", "created", result[t])
       ELSE VisitThrow(t)

\* await interceptRequest(page)
VisitIntercept(t) ==
  /\ vpc[t] = "intercept"
  /\ \E o \in Outcomes :
       IF o = "ok" THEN VisitStep(t, "goto", "opened", result[t])
       ELSE VisitThrow(t)

\* await page.goto(url, { waitUntil: "networkidle2" })
VisitGoto(t) ==
  /\ vpc[t] = "goto"
  /\ \E o \in Outcomes :
       IF o = "ok" THEN VisitStep(t, "addScriptTag", "navigated", result[t])
       ELSE VisitThrow(t)

\* await page.addScriptTag({ content: __READABILITY_SCRIPT__ })
VisitAddScriptTag(t) ==
  /\ vpc[t] = "addScriptTag"
  /\ \E o \in Outcomes :
       IF o = "ok" THEN VisitStep(t, "evaluate", "navigated", result[t])
       ELSE VisitThrow(t)

\* const result = await page.evaluate(...): content is article?.content || ""
VisitEvaluate(t) ==
  /\ vpc[t] = "evaluate"
  /\ \E o \in Outcomes :
       IF o = "ok"
       THEN \E html \in {"", "html"} :
              VisitStep(t, "close", "extracted",
                        Some([url |-> links[t[1]][t[2]].url, content |-> html]))
       ELSE VisitThrow(t)

\* await page.close(), then toMarkdown and the return
VisitClose(t) ==
  /\ vpc[t] = "close"
  /\ \E o \in Outcomes :
       IF o = "ok"
       THEN /\ vpage' = [vpage EXCEPT ![t] = "closed"]
            /\ Settle(t, "fulfilled",
                      Some([result[t][1] EXCEPT !.content = toMarkdown(@)]))
       ELSE VisitThrow(t)

----------------------------------------------------------------------------
(* The full run *)

\* no query, or up to MaxQueries plain queries; no --max-results; a given
\* --concurrency of 1 (one visit at a time) or MaxConc (the options of the
\* search request, and the default concurrency, are drawn in InitUrl)
Init ==
  InitWith(QueryLists({Filler}),
           {Undefined},
           {Some(1), Some(MaxConc)})

Next ==
  \/ ActionStart
  \/ launchBrowserOk
  \/ launchBrowserFail
  \/ ActionExit
  \/ \E q \in Q : SearchNewPage(q)
  \/ \E q \in Q : SearchIntercept(q)
  \/ \E q \in Q : SearchGoto(q)
  \/ \E q \in Q : SearchEvaluate(q)
  \/ \E t \in Tasks : VisitNewPage(t)
  \/ \E t \in Tasks : VisitIntercept(t)
  \/ \E t \in Tasks : VisitGoto(t)
  \/ \E t \in Tasks : VisitAddScriptTag(t)
  \/ \E t \in Tasks : VisitEvaluate(t)
  \/ \E t \in Tasks : VisitClose(t)

Spec == Init /\ [][Next]_vars

----------------------------------------------------------------------------
(* The run up to the search requests, over every generated option *)

InitUrl ==
  InitWith(QueryLists(Texts),
           {Undefined} \cup {Some(t) : t \in 0..MaxCap},
           {Undefined})

NextUrl ==
  \/ ActionStart
  \/ launchBrowserOk
  \/ launchBrowserFail
  \/ ActionExit
  \/ \E q \in Q : SearchNewPage(q)
  \/ \E q \in Q : SearchIntercept(q)
  \/ \E q \in Q : SearchGoto(q)

SpecUrl == InitUrl /\ [][NextUrl]_vars

----------------------------------------------------------------------------
(* The run of one query up to its candidate links, over every search page *)

InitExtract ==
  InitWith({<<Filler>>}, {Undefined, Some(MinResults)}, {Undefined})

SearchEvaluateAny(q) == SearchEvaluateOn(q, AllPages)

NextExtract ==
  \/ ActionStart
  \/ launchBrowserOk
  \/ launchBrowserFail
  \/ ActionExit
  \/ \E q \in Q : SearchNewPage(q)
  \/ \E q \in Q : SearchIntercept(q)
  \/ \E q \in Q : SearchGoto(q)
  \/ \E q \in Q : SearchEvaluateAny(q)

SpecExtract == InitExtract /\ [][NextExtract]_vars

----------------------------------------------------------------------------
(* The full run of one query with --max-results, over pages of up to
   MaxContainers candidate links *)

InitCap ==
  InitWith({<<Filler>>},
           {Some(MinResults), Some(MaxCap)},
           {Some(1), Some(MaxConc)})

SearchEvaluateGood(q) == SearchEvaluateOn(q, GoodPages)

NextCap ==
  \/ ActionStart
  \/ launchBrowserOk
  \/ launchBrowserFail
  \/ ActionExit
  \/ \E q \in Q : SearchNewPage(q)
  \/ \E q \in Q : SearchIntercept(q)
  \/ \E q \in Q : SearchGoto(q)
  \/ \E q \in Q : SearchEvaluateGood(q)
  \/ \E t \in Tasks : VisitNewPage(t)
  \/ \E t \in Tasks : VisitIntercept(t)
  \/ \E t \in Tasks : VisitGoto(t)
  \/ \E t \in Tasks : VisitAddScriptTag(t)
  \/ \E t \in Tasks : VisitEvaluate(t)
  \/ \E t \in Tasks : VisitClose(t)

SpecCap == InitCap /\ [][NextCap]_vars

----------------------------------------------------------------------------
(* The full run under fair scheduling: a turn that can be taken is taken *)

SpecFair == Init /\ [][Next]_vars /\ WF_vars(Next)

----------------------------------------------------------------------------
(* Properties *)

\* the visits that have started and have not settled
InFlight ==
  {t \in Tasks : vpc[t] \in {"newPage", "intercept", "goto", "addScriptTag",
                             "evaluate", "close"}}

\* whether the final log of query q was written
Emitted(q) == final[q] # <<>>

\* the position of url u among the candidate links of query q
LinkIndex(q, u) == CHOOSE i \in 1..Len(links[q]) : links[q][i].url = u

\* whether results r hold an entry for link i of query q
HasEntry(q, r, i) == \E k \in 1..Len(r) : r[k].url = links[q][i].url

\* C1: at most Concurrency visits are in flight at any time, counted over the
\* visits of all the queries together.
C1_AtMostConcurrencyInFlight == Cardinality(InFlight) <= Concurrency

\* C1 witness: the ceiling is reached by visits of one query while a visit of
\* another query waits in the queue.
C1_Witness ==
  /\ Cardinality(InFlight) = Concurrency
  /\ \E t \in InFlight : \E k \in 1..Len(queue) : queue[k][1] # t[1]

\* C2: the entries of a query's final results are in the order of their
\* candidate links, whatever the order in which the visits settled.
C2_ResultsInLinkOrder ==
  \A q \in Q : \A e \in 1..Len(final[q]) :
    LET r == final[q][e]
    IN  \A a, b \in 1..Len(r) :
          a < b => LinkIndex(q, r[a].url) < LinkIndex(q, r[b].url)

\* C2 witness: two entries were logged for a query whose second link settled
\* first.
C2_Witness ==
  \E q \in Q : /\ Emitted(q)
               /\ Len(final[q][1]) = 2
               /\ firstSettled[q] = 2

\* C3: a visit that fails leaves no entry in its query's final results, every
\* visit of the query that succeeds with content has its entry, and search()
\* does not throw because of a visit: it logs its final results once every
\* visit has settled.
C3_FailedVisitIsolated ==
  \A q \in Q :
    LET n == Len(links[q])
    IN  /\ n > 0 => qpc[q] \in {"waiting", "done"}
        /\ (n > 0 /\ \A i \in 1..n : vpc[<<q, i>>] \in Settled)
             => (qpc[q] = "done" /\ Len(final[q]) = 1)
        /\ Emitted(q) =>
             \A i \in 1..n :
               /\ vpc[<<q, i>>] = "rejected" => ~HasEntry(q, final[q][1], i)
               /\ (vpc[<<q, i>>] = "fulfilled" /\ result[<<q, i>>][1].content # "")
                    => HasEntry(q, final[q][1], i)

\* C3 witness: a query's final results were logged with the entry of a visit
\* that succeeded while a sibling visit failed.
C3_Witness ==
  \E q \in Q : \E i, j \in 1..Len(links[q]) :
    /\ Emitted(q)
    /\ vpc[<<q, i>>] = "rejected"
    /\ vpc[<<q, j>>] = "fulfilled"
    /\ HasEntry(q, final[q][1], j)

\* C4 as claimed: when a visit has settled, or a search() has returned or
\* thrown, the page it opened is closed.
C4_EveryPageClosed ==
  /\ \A t \in Tasks :
       (vpc[t] \in Settled /\ vpage[t] # "none") => vpage[t] = "closed"
  /\ \A q \in Q :
       (qpc[q] \in {"done", "thrown"} /\ spage[q] # "none") => spage[q] = "closed"

\* C5 as claimed: the browser is closed only when every search() has settled
\* and no visit is queued or in flight.
C5_ClosedOnlyAfterAllSettled ==
  browser = "closed" =>
    /\ \A q \in Started : qpc[q] \in {"done", "thrown"}
    /\ \A t \in Tasks : vpc[t] \in {"idle"} \cup Settled

\* C6: a launched browser is closed at most once, and when the run has ended
\* it has been closed exactly once, whether Promise.all was fulfilled or
\* rejected.
C6_SessionClosedExactlyOnce ==
  /\ closeCount <= 1
  /\ browser = "closed" <=> closeCount = 1
  /\ (runPc = "exited" /\ browser # "none") => (browser = "closed" /\ closeCount = 1)

\* C6 witness: the run ended after a search() threw, with the browser closed.
C6_Witness ==
  /\ runPc = "exited"
  /\ promiseAll = "rejected"
  /\ browser = "closed"

\* whether the search request of query q was built and given to page.goto
Requested(q) == request[q] # <<>>

\* C7 as claimed: num is max(3, floor(T / k)) for every total cap T that is
\* given, and 10 when none is given.
C7_NumForEveryCap ==
  \A q \in Q : Requested(q) =>
    request[q][1].num =
      IF options.maxResults # Undefined
      THEN Max(3, options.maxResults[1] \div Len(options.query))
      ELSE 10

\* C7 amended: num is max(3, floor(T / k)) for every total cap T other than
\* 0, and 10 when the cap is 0 or not given.
C7_NumForNonZeroCap ==
  \A q \in Q : Requested(q) =>
    request[q][1].num =
      IF options.maxResults # Undefined /\ options.maxResults[1] # 0
      THEN Max(3, options.maxResults[1] \div Len(options.query))
      ELSE 10

\* C7 witness: two queries and a total cap of 10 gave a request with num 5.
C7_Witness ==
  \E q \in Q : /\ Requested(q)
               /\ Len(options.query) = 2
               /\ options.maxResults = Some(10)
               /\ request[q][1].num = 5

\* C8 as claimed: stripping the query of a request a second time changes
\* nothing.
C8_StripIdempotent ==
  \A q \in Q : Requested(q) =>
    request[q][1].q = encodeURIComponent(stripQuotes(stripQuotes(queries[q])))

\* C9 as claimed: the q of the request for php "hello world" is the encoding
\* of php hello world.
C9_BothQuotesRemoved ==
  \A q \in Q : (Requested(q) /\ queries[q] = PhpHello) =>
    request[q][1].q = <<"p", "h", "p", "%", "2", "0", "h", "e", "l", "l", "o",
                        "%", "2", "0", "w", "o", "r", "l", "d">>

\* C9 amended: the q of the request for php "hello world" is
\* php%20%22hello%20world: the quote at the end is removed, the one inside
\* the text is kept and percent-encoded.
C9_TrailingQuoteRemoved ==
  \A q \in Q : (Requested(q) /\ queries[q] = PhpHello) =>
    request[q][1].q = <<"p", "h", "p", "%", "2", "0", "%", "2", "2", "h", "e",
                        "l", "l", "o", "%", "2", "0", "w", "o", "r", "l", "d">>

\* C9 witness: the request for php "hello world" was built.
C9_Witness ==
  \E q \in Q : Requested(q) /\ queries[q] = PhpHello

\* C10 as claimed: while a search() that threw leaves another search() of
\* the run unfinished, the browser stays open for it.
C10_OtherPipelinesKeepSession ==
  \A q1, q2 \in Started :
    (q1 # q2 /\ qpc[q1] = "thrown" /\ qpc[q2] \notin {"done", "thrown"})
      => browser = "open"

----------------------------------------------------------------------------
(* Properties of the failures, the outputs and the pages *)

\* whether the search() of query q has returned or thrown
Finished(q) == qpc[q] \in {"done", "thrown"}

\* the states of a page that was opened and is not closed
OpenStates == {"created", "opened", "navigated", "extracted", "failed"}

\* the pages that are open
OpenPages ==
  {<<"search", q>> : q \in {x \in Q : spage[x] \in OpenStates}}
    \cup {<<"visit", t>> : t \in {x \in Tasks : vpage[x] \in OpenStates}}

\* C11 as claimed: the exit code is non-zero only when the query is missing
\* or the browser was not launched.
C11_FailureOnlyForQueryOrLaunch ==
  exitCode # 0 => (options.query \in {<<>>, <<<<>>>>} \/ browser = "none")

\* C12: with no query the launch is not attempted; while no browser was
\* launched no page is opened, no search request is built and nothing is
\* logged; and a run that ends without a browser ends with a non-zero
\* exit code.
C12_FailureBeforeAnyWork ==
  /\ options.query \in {<<>>, <<<<>>>>}
       => (runPc \in {"start", "exited"} /\ browser = "none")
  /\ browser = "none" =>
       /\ \A q \in Q : /\ spage[q] = "none"
                       /\ request[q] = <<>>
                       /\ interim[q] = <<>>
                       /\ final[q] = <<>>
       /\ \A t \in Tasks : vpc[t] = "idle" /\ vpage[t] = "none"
  /\ (runPc = "exited" /\ browser = "none") => exitCode # 0

\* C12 witness: the run ended on a launch that failed, with a query given.
C12_Witness ==
  /\ runPc = "exited"
  /\ browser = "none"
  /\ options.query \notin {<<>>, <<<<>>>>}
  /\ exitCode = 1

\* C13: every entry of a final log has content, and a visit that failed or
\* whose converted content is empty has no entry.
C13_EntriesHaveContent ==
  \A q \in Q : \A e \in 1..Len(final[q]) :
    /\ \A k \in 1..Len(final[q][e]) : final[q][e][k].content # ""
    /\ \A i \in 1..Len(links[q]) :
         (\/ vpc[<<q, i>>] = "rejected"
          \/ (vpc[<<q, i>>] = "fulfilled" /\ result[<<q, i>>][1].content = ""))
           => ~HasEntry(q, final[q][e], i)

\* C13 witness: a final log was written for a query of which one visit gave
\* empty content and another gave an entry.
C13_Witness ==
  \E q \in Q : \E i, j \in 1..Len(links[q]) :
    /\ Emitted(q)
    /\ vpc[<<q, i>>] = "fulfilled"
    /\ result[<<q, i>>][1].content = ""
    /\ HasEntry(q, final[q][1], j)

\* the cap of a query as the claims state it
EffectiveCap ==
  IF options.maxResults # Undefined /\ options.maxResults[1] # 0
  THEN Max(3, options.maxResults[1] \div Len(options.query))
  ELSE 10

\* the containers of the search page of query q that have a title and a url
Qualifying(q) ==
  {p \in 1..Len(dom[q]) : dom[q][p].title # <<>> /\ dom[q][p].url # <<>>}

\* C14 as claimed: the candidate links and the final results of a query are
\* at most its effective cap.
C14_WithinCap ==
  \A q \in Q :
    /\ Len(links[q]) <= EffectiveCap
    /\ \A e \in 1..Len(final[q]) : Len(final[q][e]) <= EffectiveCap

\* C14 amended: the candidate links of a query are as many as the containers
\* of its search page that have a title and a url, whatever the cap, and the
\* final results are at most as many.
C14_WithinPage ==
  \A q \in Q :
    /\ interim[q] # <<>> => Len(links[q]) = Cardinality(Qualifying(q))
    /\ \A e \in 1..Len(final[q]) : Len(final[q][e]) <= Len(links[q])

\* C14 witness: with a cap of 3 a final log holds more than 3 results.
C14_Witness ==
  \E q \in Q : /\ EffectiveCap = 3
               /\ Emitted(q)
               /\ Len(final[q][1]) > 3

\* C15: the candidate links are the containers that have a title and a url,
\* each once and in document order; no link has an empty title or url.
C15_LinksAreQualifyingInOrder ==
  \A q \in Q : \A e \in 1..Len(interim[q]) :
    LET ls == interim[q][e]
    IN  /\ ls = links[q]
        /\ \A i \in 1..Len(ls) :
             /\ ls[i].title # <<>>
             /\ ls[i].url # <<>>
             /\ \E p \in Qualifying(q) : dom[q][p] = ls[i]
        /\ \A p \in Qualifying(q) : \E i \in 1..Len(ls) : ls[i] = dom[q][p]
        /\ \A i, j \in 1..Len(ls) : i < j => ls[i].url[2] < ls[j].url[2]

\* C15 witness: a page whose second container is skipped gave the links of
\* its first and third containers.
C15_Witness ==
  \E q \in Q : /\ interim[q] # <<>>
               /\ Len(dom[q]) >= 3
               /\ 2 \notin Qualifying(q)
               /\ Len(links[q]) >= 2
               /\ links[q][1] = dom[q][1]
               /\ links[q][2] = dom[q][3]

\* C16 as claimed: for every query the interim list is logged once, before
\* any of its visits is submitted, and the final results once, after the
\* interim list and after every visit has settled.
C16_EachLoggedOnceInOrder ==
  \A q \in Started :
    /\ Len(interim[q]) <= 1
    /\ Len(final[q]) <= 1
    /\ (\E i \in 1..MaxContainers : vpc[<<q, i>>] # "idle") => Len(interim[q]) = 1
    /\ Emitted(q) =>
         /\ Len(interim[q]) = 1
         /\ \A i \in 1..Len(links[q]) : vpc[<<q, i>>] \in Settled
    /\ Finished(q) => (Len(interim[q]) = 1 /\ Len(final[q]) = 1)

\* C17 as claimed: while the browser is open, the open pages are at most the
\* queue's ceiling plus the searches that have not finished.
C17_OpenPagesBounded ==
  browser = "open" =>
    Cardinality(OpenPages)
      <= Concurrency + Cardinality({q \in Started : ~Finished(q)})

\* the steps of a page's lifecycle
PageEdges ==
  {<<"none", "created">>, <<"created", "opened">>, <<"opened", "navigated">>,
   <<"navigated", "extracted">>, <<"extracted", "closed">>}
    \cup {<<a, "failed">> : a \in {"created", "opened", "navigated", "extracted"}}

\* C18: a page changes state only along Created, Opened, Navigated,
\* Extracted or Failed, Closed; page.goto is called on a page only once
\* interceptRequest is done, extraction runs on a navigated page, and a
\* closed page is not operated on again.
C18_PageLifecycle ==
  [][/\ \A q \in Q :
          \/ (qpc'[q] = qpc[q] /\ spage'[q] = spage[q] /\ request'[q] = request[q])
          \/ /\ spage'[q] # spage[q] => <<spage[q], spage'[q]>> \in PageEdges
             /\ request'[q] # request[q] => spage'[q] = "opened"
             /\ qpc'[q] = "goto" => spage'[q] = "opened"
             /\ qpc'[q] = "evaluate" => spage'[q] = "navigated"
     /\ \A t \in Tasks :
          \/ (vpc'[t] = vpc[t] /\ vpage'[t] = vpage[t])
          \/ /\ vpage[t] # "closed"
             /\ vpage'[t] # vpage[t] => <<vpage[t], vpage'[t]>> \in PageEdges
             /\ vpc'[t] = "goto" => vpage'[t] = "opened"
             /\ vpc'[t] \in {"addScriptTag", "evaluate"} => vpage'[t] = "navigated"
             /\ vpc'[t] = "close" => vpage'[t] = "extracted"
             /\ vpage'[t] = "closed" => vpc'[t] = "fulfilled"
    ]_vars

\* C18 witness: the page of a visit went through its lifecycle and is closed.
C18_Witness == \E t \in Tasks : vpage[t] = "closed" /\ vpc[t] = "fulfilled"

\* C19 as claimed: the turn in which a search() or a visit starts, and calls
\* context.newPage(), finds the browser open.
C19_NoNewPageOnClosedBrowser ==
  [][/\ \A q \in Q :
          (qpc[q] # "newPage" /\ qpc'[q] = "newPage") => browser' = "open"
     /\ \A t \in Tasks :
          (vpc[t] # "newPage" /\ vpc'[t] = "newPage") => browser = "open"
    ]_vars

\* whether the run is over: main has returned, no visit is queued or in
\* flight, and a browser that was launched is closed with every search()
\* returned or thrown
RunOver ==
  /\ runPc = "exited"
  /\ queue = <<>>
  /\ \A t \in Tasks : vpc[t] \in {"idle"} \cup Settled
  /\ \/ browser = "none"
     \/ (browser = "closed" /\ \A q \in Started : Finished(q))

\* C20: under fair scheduling every visit that is queued settles, and the
\* run ends: every search() has finished and the browser is closed.
C20_EveryTaskSettlesAndRunEnds ==
  /\ <>RunOver
  /\ \A t \in Tasks : (vpc[t] = "queued") ~> (vpc[t] \in Settled)

\* C20 witness: the run is over with the browser closed, after a visit
\* that had to wait in the queue has settled.
C20_Witness ==
  /\ RunOver
  /\ browser = "closed"
  /\ Concurrency = 1
  /\ \E q \in Q : Len(links[q]) = 2 /\ vpc[<<q, 2>>] \in Settled

====
